---- MODULE Spec2Model ----
(***************************************************************************)
(* PayOuts: weekly consultant invoices computed from Tempo work logs.      *)
(*                                                                         *)
(* Spec         the engine: get_invoices / Consultant.invoices_in_range /  *)
(*              Consultant.__invoice_for_work_date / WorkLog.from_tempo_api *)
(* SpecInvoice  one Invoice: construction, appended work logs and the      *)
(*              derived values (net_rate, invoice_amount, total_work_days) *)
(*                                                                         *)
(* A datetime.date is its proleptic Gregorian ordinal (date.toordinal()),  *)
(* an ISO date string is the tuple <<year, month, day>> of its fields, a   *)
(* Decimal is an exact fraction [num, den].  Python divides Decimals to 28  *)
(* significant digits; the quotients of the rates and day counts used here *)
(* are never that close to a tie at the fourth decimal place, so rounding   *)
(* the exact fraction to 4 places gives the value round(..., 4) gives.      *)
(***************************************************************************)
EXTENDS Integers, Sequences, FiniteSets, TLC

VARIABLES
    pc,          \* position of the running call
    entry,       \* "library" (example.py) or "http" (endpoint.py)
    token,       \* the request's token header
    start_date,  \* argument start_date
    end_date,    \* argument end_date, rebound by invoices_in_range line 420
    next_date,   \* invoices_in_range: next_date
    invoices,    \* invoices_in_range: the dict, as <<key, Invoice>> pairs in insertion order
    invoice,     \* the Invoice under construction
    work_logs,   \* __invoice_for_work_date: the raw records of the last fetch
    idx,         \* number of raw records the map iterator has consumed
    fetches,     \* log of the get_worklogs calls made, with what each returned
    returned,    \* what the call returned (the dict, or the HTTP response's pairs)
    error,       \* the exception the call ended with ("" if none)
    consultant   \* the Consultant's configuration: billing_mode and rate

vars == <<pc, entry, token, start_date, end_date, next_date, invoices, invoice,
          work_logs, idx, fetches, returned, error, consultant>>

-----------------------------------------------------------------------------
(* Bounds of the model *)

\* the source holds at most this many work logs in a requested range
MaxLogs == 2
\* end_date is at most this many days after start_date
MaxRange == 14
\* an Invoice built directly holds at most this many appended work logs
MaxInvLogs == 2
\* a directly built Invoice spans at most MaxSpan + 1 days
MaxSpan == 6
\* directly built Invoices start at most this many days before a month's last day
WindowDays == 3

-----------------------------------------------------------------------------
(* Program constants *)

DaysPerWeek == 7
Saturday == 5
Sunday == 6
Friday == 4
Places == 4
WorkdayHours == 3
SecondsPerHour == 60 * 60
Net30 == 30
ACCOUNT_KEY == "_Account_"
TOKEN == "secret"

-----------------------------------------------------------------------------
(* datetime.date and calendar *)

IsLeap(y) == (y % 4 = 0) /\ ((y % 100 # 0) \/ (y % 400 = 0))

\* calendar.monthrange(year, month)[1]
DaysInMonth(y, m) ==
    IF m = 2 THEN (IF IsLeap(y) THEN 29 ELSE 28)
    ELSE IF m \in {4, 6, 9, 11} THEN 30 ELSE 31

\* days of the year before the first day of month m
DaysBeforeMonth(y, m) ==
    <<0, 31, 59, 90, 120, 151, 181, 212, 243, 273, 304, 334>>[m]
      + (IF m > 2 /\ IsLeap(y) THEN 1 ELSE 0)

DaysBeforeYear(y) ==
    (y - 1) * 365 + ((y - 1) \div 4) - ((y - 1) \div 100) + ((y - 1) \div 400)

\* datetime.date(y, m, d).toordinal()
Ymd2Ord(y, m, d) == DaysBeforeYear(y) + DaysBeforeMonth(y, m) + d

\* datetime.date.fromordinal(n): <<year, month, day>>, by the 400-, 100- and
\* 4-year cycles of the calendar
Ord2Ymd(ordinal) ==
    LET n0   == ordinal - 1
        n400 == n0 \div 146097
        r400 == n0 % 146097
        n100 == r400 \div 36524
        r100 == r400 % 36524
        n4   == r100 \div 1461
        r4   == r100 % 1461
        n1   == r4 \div 365
        n    == r4 % 365
        year == n400 * 400 + 1 + n100 * 100 + n4 * 4 + n1
        leap == n1 = 3 /\ (n4 # 24 \/ n100 = 3)
        guess == (n + 50) \div 32
        before(m) == <<0, 31, 59, 90, 120, 151, 181, 212, 243, 273, 304, 334>>[m]
                       + (IF m > 2 /\ leap THEN 1 ELSE 0)
        month == IF before(guess) > n THEN guess - 1 ELSE guess
    IN  IF n1 = 4 \/ n100 = 4 THEN <<year - 1, 12, 31>>
        ELSE <<year, month, n - before(month) + 1>>

\* date.weekday(): Monday is 0, Sunday is 6
Weekday(n) == (n + 6) % 7

\* date.isoformat(), as the fields of "YYYY-MM-DD"
IsoFormat(n) == Ord2Ymd(n)

\* whether datetime.date.fromisoformat accepts the text
IsIsoDate(t) ==
    /\ Len(t) = 3
    /\ t[2] \in 1..12
    /\ t[1] >= 1
    /\ t[3] \in 1..DaysInMonth(t[1], t[2])

\* datetime.date.fromisoformat(text)
FromIsoFormat(t) == Ymd2Ord(t[1], t[2], t[3])

\* whether strptime(text, "%Y-%m-%dT%H:%M:%SZ") accepts the text
IsTimestamp(t) ==
    /\ Len(t) = 6
    /\ IsIsoDate(SubSeq(t, 1, 3))
    /\ t[4] \in 0..23 /\ t[5] \in 0..59 /\ t[6] \in 0..61

-----------------------------------------------------------------------------
(* Python values of the end_date argument *)

NoneVal == [type |-> "NoneType", ord |-> 0, text |-> <<>>]
DateVal(n) == [type |-> "date", ord |-> n, text |-> <<>>]
StrVal(t) == [type |-> "str", ord |-> 0, text |-> t]

\* bool(v): None and "" are falsy, a date and a non-empty str are truthy
Truthy(v) == v.type = "date" \/ (v.type = "str" /\ v.text # <<>>)

\* whether date <= v is defined (date.__le__ answers NotImplemented for a non-date)
Comparable(v) == v.type = "date"

-----------------------------------------------------------------------------
(* Decimal: exact fractions *)

RECURSIVE Gcd(_, _)
Gcd(a, b) == IF b = 0 THEN a ELSE Gcd(b, a % b)

Rat(n, d) == LET g == Gcd(IF n < 0 THEN -n ELSE n, d)
             IN  IF n = 0 THEN [num |-> 0, den |-> 1] ELSE [num |-> n \div g, den |-> d \div g]

Zero == Rat(0, 1)
RAdd(a, b) == Rat(a.num * b.den + b.num * a.den, a.den * b.den)
RMul(a, b) == LET x == Rat(a.num, b.den)
                  y == Rat(b.num, a.den)
              IN  Rat(x.num * y.num, x.den * y.den)
RDivInt(a, k) == LET x == Rat(a.num, k) IN Rat(x.num, x.den * a.den)
RMulInt(a, k) == RMul(a, Rat(k, 1))
RGt(a, b) == a.num * b.den > b.num * a.den

\* n / d rounded to the nearest integer, ties to the even one (ROUND_HALF_EVEN,
\* what Decimal.__round__ uses)
RoundHalfEven(n, d) ==
    LET q == n \div d
        r == n % d
    IN  IF 2 * r < d THEN q
        ELSE IF 2 * r > d THEN q + 1
        ELSE IF q % 2 = 0 THEN q ELSE q + 1

RECURSIVE Pow10(_)
Pow10(k) == IF k = 0 THEN 1 ELSE 10 * Pow10(k - 1)

\* round(x, places) of a Decimal
Round(x, places) ==
    Rat((x.num \div x.den) * Pow10(places)
          + RoundHalfEven((x.num % x.den) * Pow10(places), x.den),
        Pow10(places))

-----------------------------------------------------------------------------
(* WorkLog *)

\* what WorkLog.from_tempo_api raises on a raw record ("" if nothing): the keyword
\* arguments are evaluated in order, date first, account last
from_tempo_api_error(raw) ==
    IF ~IsIsoDate(raw.startDate) THEN "ValueError"
    ELSE IF ~IsTimestamp(raw.createdAt) \/ ~IsTimestamp(raw.updatedAt) THEN "ValueError"
    ELSE IF SelectSeq(raw.attributes, LAMBDA a : a.key = ACCOUNT_KEY) = <<>> THEN "IndexError"
    ELSE ""

from_tempo_api(raw) ==
    [worklog_id       |-> raw.tempoWorklogId,
     billable_seconds |-> raw.billableSeconds,
     date             |-> FromIsoFormat(raw.startDate),
     account          |-> SelectSeq(raw.attributes, LAMBDA a : a.key = ACCOUNT_KEY)[1]]

\* WorkLog.hours
hours(work_log) == Rat(work_log.billable_seconds, SecondsPerHour)

-----------------------------------------------------------------------------
(* InvoiceItem *)

InvoiceItem(date, billing_mode) ==
    [date |-> date, billing_mode |-> billing_mode, work_logs |-> <<>>]

RECURSIVE SumHours(_)
SumHours(logs) ==
    IF logs = <<>> THEN Zero ELSE RAdd(hours(Head(logs)), SumHours(Tail(logs)))

\* InvoiceItem.total_work_hours
total_work_hours(item) == SumHours(item.work_logs)

\* is_workday with the threshold met at exactly 3 hours
is_workday_from_three(item) ==
    ~RGt(Rat(WorkdayHours, 1), total_work_hours(item)) \/ Weekday(item.date) < Saturday

\* InvoiceItem.is_workday
is_workday(item) ==
    RGt(total_work_hours(item), Rat(WorkdayHours, 1)) \/ Weekday(item.date) < Saturday

\* work_unit gated by is_workday
work_unit_workdays_only(item) ==
    IF item.billing_mode = "HOURLY"
    THEN (IF Weekday(item.date) < Saturday \/ RGt(total_work_hours(item), Rat(WorkdayHours, 1))
          THEN total_work_hours(item) ELSE Zero)
    ELSE Rat(1, 1)

\* InvoiceItem.work_unit
work_unit(item) ==
    IF item.billing_mode = "HOURLY" THEN total_work_hours(item) ELSE Rat(1, 1)

-----------------------------------------------------------------------------
(* Invoice *)

\* __post_init__ stopping before invoice_date
InvoiceWithoutLastDay(start, inv_date, rate, billing_mode) ==
    [start_date   |-> start,
     invoice_date |-> inv_date,
     rate         |-> rate,
     billing_mode |-> billing_mode,
     items        |-> [d \in start..(inv_date - 1) |-> InvoiceItem(d, billing_mode)]]

\* Invoice.__post_init__: one blank InvoiceItem per date of start_date..invoice_date
Invoice(start, inv_date, rate, billing_mode) ==
    [start_date   |-> start,
     invoice_date |-> inv_date,
     rate         |-> rate,
     billing_mode |-> billing_mode,
     items        |-> [d \in start..inv_date |-> InvoiceItem(d, billing_mode)]]

\* whether invoice.items[key] exists (a dict lookup of a missing key raises KeyError)
HasItem(inv, key) == key \in DOMAIN inv.items

\* the append keyed one day late
AppendWorkLogNextDay(inv, work_log) ==
    [inv EXCEPT !.items[IF HasItem(inv, work_log.date + 1) THEN work_log.date + 1
                        ELSE work_log.date].work_logs = Append(@, work_log)]

\* invoice.items[work_log.date].work_logs.append(work_log)
AppendWorkLog(inv, work_log) ==
    [inv EXCEPT !.items[work_log.date].work_logs = Append(@, work_log)]

RECURSIVE SumUnits(_, _)
SumUnits(inv, dates) ==
    IF dates = {} THEN Zero
    ELSE LET d == CHOOSE x \in dates : TRUE
         IN  RAdd(work_unit(inv.items[d]), SumUnits(inv, dates \ {d}))

\* Invoice.total_work_unit
total_work_unit(inv) == SumUnits(inv, DOMAIN inv.items)

\* net_rate with the flat divisor days_in_start_month in both regimes
net_rate_flat_divisor(inv) ==
    LET s == Ord2Ymd(inv.start_date)
    IN  Round(IF inv.billing_mode = "HOURLY" THEN inv.rate
              ELSE RDivInt(inv.rate, DaysInMonth(s[1], s[2])), Places)

\* Invoice.net_rate
net_rate(inv) ==
    LET s  == Ord2Ymd(inv.start_date)
        e  == Ord2Ymd(inv.invoice_date)
        no_of_days_in_start_month == DaysInMonth(s[1], s[2])
        no_of_days_in_end_month   == DaysInMonth(e[1], e[2])
        work_days_in_start_month  == no_of_days_in_start_month - s[3] + 1
        work_days_in_end_month    == e[3]
        rate_in_start_month       == RDivInt(inv.rate, no_of_days_in_start_month)
        rate_in_end_month         == RDivInt(inv.rate, no_of_days_in_end_month)
        rate == IF inv.billing_mode = "HOURLY" THEN inv.rate
                ELSE IF no_of_days_in_end_month = no_of_days_in_start_month
                     THEN RDivInt(inv.rate, no_of_days_in_start_month)
                ELSE RDivInt(RAdd(RMulInt(rate_in_start_month, work_days_in_start_month),
                                  RMulInt(rate_in_end_month, work_days_in_end_month)),
                             work_days_in_start_month + work_days_in_end_month)
    IN  Round(rate, Places)

\* Invoice.invoice_amount
invoice_amount(inv) == Round(RMul(net_rate(inv), total_work_unit(inv)), Places)

\* Invoice.due_date
due_date(inv) == inv.invoice_date + Net30

\* Invoice.total_work_days()
total_work_days(inv) == Cardinality({d \in DOMAIN inv.items : is_workday(inv.items[d])})

-----------------------------------------------------------------------------
(* Consultant *)

\* billing_date_bounds without its weekend branch
billing_date_bounds_weekdays_only(date) ==
    LET weekday == Weekday(date)
    IN  <<date - (weekday + 2), date + (4 - weekday)>>

\* Consultant.billing_date_bounds: <<start_date, end_date>>
billing_date_bounds(date) ==
    LET weekday == Weekday(date)
    IN  IF weekday >= 5
        THEN <<date - (weekday - 5), date + (5 + (6 - weekday))>>
        ELSE <<date - (weekday + 2), date + (4 - weekday)>>

\* invoices[key] = value on a dict that keeps insertion order
DictSet(dict, key, value) ==
    IF \E i \in 1..Len(dict) : dict[i][1] = key
    THEN [i \in 1..Len(dict) |-> IF dict[i][1] = key THEN <<key, value>> ELSE dict[i]]
    ELSE Append(dict, <<key, value>>)

Keys(dict) == [i \in 1..Len(dict) |-> dict[i][1]]
KeySet(dict) == {dict[i][1] : i \in 1..Len(dict)}

-----------------------------------------------------------------------------
(* The requests and the Tempo source *)

\* first start_date of the model: Saturday 2021-05-29
Epoch == Ymd2Ord(2021, 5, 29)
\* datetime.date.today()
Today == Ymd2Ord(2021, 6, 9)

StartDates == Epoch..(Epoch + DaysPerWeek - 1)
EndDates(start) == (start - 1)..(start + MaxRange)

\* Consultant(billing_mode=BillMode.MONTHLY, rate=Decimal("9680"), ...)
ExampleConsultant == [billing_mode |-> "MONTHLY", rate |-> Rat(9680, 1)]

GoodStamp == <<2021, 6, 1, 12, 0, 0>>
BadStamp == <<2021, 6, 1, 25, 0, 0>>
BadDate == <<2021, 2, 30>>
AccountAttributes == <<[key |-> "_Team_", value |-> "T"], [key |-> ACCOUNT_KEY, value |-> "ACC"]>>
OtherAttributes == <<[key |-> "_Team_", value |-> "T"]>>

RawRecord(startDate, createdAt, attributes) ==
    [tempoWorklogId  |-> 0,
     billableSeconds |-> 90 * 60,
     startDate       |-> startDate,
     createdAt       |-> createdAt,
     updatedAt       |-> GoodStamp,
     attributes      |-> attributes]

\* the records get_worklogs(dateFrom, dateTo) may hold: well-formed ones dated in
\* the week or a day off it, and one of each malformed kind
RawRecords(dateFrom, dateTo) ==
    {RawRecord(IsoFormat(d), GoodStamp, AccountAttributes) : d \in (dateFrom - 1)..(dateTo + 1)}
      \cup {RawRecord(BadDate, GoodStamp, AccountAttributes),
            RawRecord(IsoFormat(dateFrom), BadStamp, AccountAttributes),
            RawRecord(IsoFormat(dateFrom), GoodStamp, OtherAttributes)}

RECURSIVE Delivered(_)
Delivered(log) ==
    IF log = <<>> THEN 0 ELSE Len(Head(log).records) + Delivered(Tail(log))

\* what one get_worklogs call may answer: tempoWorklogId numbers the records
FetchResults(dateFrom, dateTo, log) ==
    LET n == Delivered(log)
    IN  UNION {{[i \in 1..k |-> [shape[i] EXCEPT !.tempoWorklogId = n + i]] :
                   shape \in [1..k -> RawRecords(dateFrom, dateTo)]} :
               k \in 0..(MaxLogs - n)}

NoInvoice == Invoice(1, 0, Zero, "")

-----------------------------------------------------------------------------
(* The engine: endpoint.py get_invoices, models.py Consultant *)

Init ==
    /\ pc = "call"
    /\ entry \in {"library", "http"}
    /\ token \in IF entry = "http" THEN {TOKEN, "wrong"} ELSE {""}
    /\ start_date \in StartDates
    /\ end_date \in IF entry = "library"
                    THEN {NoneVal} \cup {DateVal(e) : e \in EndDates(start_date)}
                    ELSE {NoneVal, StrVal(<<>>)}
                           \cup {StrVal(IsoFormat(e)) : e \in EndDates(start_date)}
    /\ next_date = 0
    /\ invoices = <<>>
    /\ invoice = NoInvoice
    /\ work_logs = <<>>
    /\ idx = 0
    /\ fetches = <<>>
    /\ returned = <<>>
    /\ error = ""
    /\ consultant = ExampleConsultant

Raise(exception) ==
    /\ pc' = "raised"
    /\ error' = exception

\* get_invoices, lines 26-27: the token check
Unauthorized ==
    /\ pc = "call"
    /\ entry = "http"
    /\ token # TOKEN
    /\ Raise("HTTPException401")
    /\ UNCHANGED <<entry, token, start_date, end_date, next_date, invoices, invoice,
                   work_logs, idx, fetches, returned, consultant>>

\* invoices_in_range, lines 420-422
EnterRange ==
    /\ pc = "call"
    /\ entry = "http" => token = TOKEN
    /\ end_date' = IF Truthy(end_date) THEN end_date ELSE DateVal(Today)
    /\ invoices' = <<>>
    /\ next_date' = start_date
    /\ pc' = "loop"
    /\ UNCHANGED <<entry, token, start_date, invoice, work_logs, idx, fetches,
                   returned, error, consultant>>

\* line 423 with an end_date that is no date: date <= str raises TypeError
CompareRaises ==
    /\ pc = "loop"
    /\ ~Comparable(end_date)
    /\ Raise("TypeError")
    /\ UNCHANGED <<entry, token, start_date, end_date, next_date, invoices, invoice,
                   work_logs, idx, fetches, returned, consultant>>

\* line 423 false, line 428 (and endpoint.py line 31)
Return ==
    /\ pc = "loop"
    /\ Comparable(end_date)
    /\ ~(next_date <= end_date.ord)
    /\ returned' = IF entry = "http"
                   THEN [i \in 1..Len(invoices) |-> <<IsoFormat(invoices[i][2].invoice_date),
                                                     invoices[i][2]>>]
                   ELSE invoices
    /\ pc' = "done"
    /\ UNCHANGED <<entry, token, start_date, end_date, next_date, invoices, invoice,
                   work_logs, idx, fetches, error, consultant>>

\* line 423 true; __invoice_for_work_date lines 397-400, get_worklogs answers
Fetch ==
    /\ pc = "loop"
    /\ Comparable(end_date)
    /\ next_date <= end_date.ord
    /\ LET bounds == billing_date_bounds(next_date)
       IN  /\ invoice' = Invoice(bounds[1], bounds[2], consultant.rate, consultant.billing_mode)
           /\ \E result \in FetchResults(bounds[1], bounds[2], fetches) :
                 /\ work_logs' = result
                 /\ fetches' = Append(fetches, [dateFrom |-> bounds[1], dateTo |-> bounds[2],
                                                ok |-> TRUE, records |-> result])
    /\ idx' = 0
    /\ pc' = "append"
    /\ UNCHANGED <<entry, token, start_date, end_date, next_date, invoices, returned, error, consultant>>

\* line 423 true; __invoice_for_work_date lines 397-400, get_worklogs raises
FetchRaises ==
    /\ pc = "loop"
    /\ Comparable(end_date)
    /\ next_date <= end_date.ord
    /\ LET bounds == billing_date_bounds(next_date)
       IN  /\ invoice' = Invoice(bounds[1], bounds[2], consultant.rate, consultant.billing_mode)
           /\ fetches' = Append(fetches, [dateFrom |-> bounds[1], dateTo |-> bounds[2],
                                          ok |-> FALSE, records |-> <<>>])
    /\ Raise("TempoError")
    /\ UNCHANGED <<entry, token, start_date, end_date, next_date, invoices, work_logs,
                   idx, returned, consultant>>

\* lines 401 and 404, one record: translated, then appended to the item of its date
AppendLog ==
    /\ pc = "append"
    /\ idx < Len(work_logs)
    /\ from_tempo_api_error(work_logs[idx + 1]) = ""
    /\ LET work_log == from_tempo_api(work_logs[idx + 1])
       IN  /\ HasItem(invoice, work_log.date)
           /\ invoice' = AppendWorkLog(invoice, work_log)
    /\ idx' = idx + 1
    /\ UNCHANGED <<pc, entry, token, start_date, end_date, next_date, invoices,
                   work_logs, fetches, returned, error, consultant>>

\* the failing record skipped instead of raised
AppendSkips ==
    /\ pc = "append"
    /\ idx < Len(work_logs)
    /\ LET raw == work_logs[idx + 1]
       IN  \/ from_tempo_api_error(raw) # ""
           \/ ~HasItem(invoice, from_tempo_api(raw).date)
    /\ idx' = idx + 1
    /\ UNCHANGED <<pc, entry, token, start_date, end_date, next_date, invoices, invoice,
                   work_logs, fetches, returned, error, consultant>>

\* lines 401 and 404, one record: from_tempo_api raises, or no item has its date
AppendRaises ==
    /\ pc = "append"
    /\ idx < Len(work_logs)
    /\ LET raw == work_logs[idx + 1]
       IN  IF from_tempo_api_error(raw) # ""
           THEN Raise(from_tempo_api_error(raw))
           ELSE /\ ~HasItem(invoice, from_tempo_api(raw).date)
                /\ Raise("KeyError")
    /\ idx' = idx + 1
    /\ UNCHANGED <<entry, token, start_date, end_date, next_date, invoices, invoice,
                   work_logs, fetches, returned, consultant>>

\* the loop advancing by one day, as Invoice.__post_init__ does
StoreInvoiceDaily ==
    /\ pc = "append"
    /\ idx = Len(work_logs)
    /\ next_date' = next_date + 1
    /\ invoices' = DictSet(invoices, invoice.invoice_date, invoice)
    /\ pc' = "loop"
    /\ UNCHANGED <<entry, token, start_date, end_date, invoice, work_logs, idx,
                   fetches, returned, error, consultant>>

\* lines 406, 425, 426
StoreInvoice ==
    /\ pc = "append"
    /\ idx = Len(work_logs)
    /\ next_date' = next_date + DaysPerWeek
    /\ invoices' = DictSet(invoices, invoice.invoice_date, invoice)
    /\ pc' = "loop"
    /\ UNCHANGED <<entry, token, start_date, end_date, invoice, work_logs, idx,
                   fetches, returned, error, consultant>>

Next ==
    \/ Unauthorized
    \/ EnterRange
    \/ CompareRaises
    \/ Return
    \/ Fetch
    \/ FetchRaises
    \/ AppendLog
    \/ AppendRaises
    \/ StoreInvoice

Spec == Init /\ [][Next]_vars

-----------------------------------------------------------------------------
(* One Invoice: construction, appends, derived values *)

\* the last days of January 2021 (31 -> 28), April 2021 (30 -> 31), July 2021
\* (31 -> 31) and February 2020 (29 -> 31)
MonthEnds == {Ymd2Ord(2021, 1, 31), Ymd2Ord(2021, 4, 30), Ymd2Ord(2021, 7, 31),
              Ymd2Ord(2020, 2, 29)}

SpanStarts == UNION {(m - WindowDays)..m : m \in MonthEnds}

\* rates as Decimal(str(CONSULTANT_RATE)) gives them: 12.34567, 25.5, 9680
Consultants ==
    {[billing_mode |-> "HOURLY",  rate |-> Rat(1234567, 100000)],
     [billing_mode |-> "HOURLY",  rate |-> Rat(255, 10)],
     [billing_mode |-> "MONTHLY", rate |-> Rat(9680, 1)]}

\* billable seconds of a work log: 1.5 h and 3.5 h
BillableSeconds == {90 * 60, 210 * 60}

InitInvoice ==
    /\ pc = "new"
    /\ consultant \in Consultants
    /\ start_date \in SpanStarts
    /\ end_date \in {DateVal(e) : e \in start_date..(start_date + MaxSpan)}
    /\ entry = "library"
    /\ token = ""
    /\ next_date = 0
    /\ invoices = <<>>
    /\ invoice = NoInvoice
    /\ work_logs = <<>>
    /\ idx = 0
    /\ fetches = <<>>
    /\ returned = <<>>
    /\ error = ""

\* Invoice(start_date=..., invoice_date=..., billing_mode=..., rate=...)
NewInvoice ==
    /\ pc = "new"
    /\ invoice' = Invoice(start_date, end_date.ord, consultant.rate, consultant.billing_mode)
    /\ pc' = "built"
    /\ UNCHANGED <<entry, token, start_date, end_date, next_date, invoices, work_logs,
                   idx, fetches, returned, error, consultant>>

NewWorkLog(date, seconds) ==
    [worklog_id       |-> idx + 1,
     billable_seconds |-> seconds,
     date             |-> date,
     account          |-> [key |-> ACCOUNT_KEY, value |-> "ACC"]]

\* invoice.items[work_log.date].work_logs.append(work_log), the date has an item
AppendToItem ==
    /\ pc = "built"
    /\ idx < MaxInvLogs
    /\ \E d \in DOMAIN invoice.items, seconds \in BillableSeconds :
          invoice' = AppendWorkLog(invoice, NewWorkLog(d, seconds))
    /\ idx' = idx + 1
    /\ UNCHANGED <<pc, entry, token, start_date, end_date, next_date, invoices,
                   work_logs, fetches, returned, error, consultant>>

\* invoice.items[work_log.date].work_logs.append(work_log), the date has no item
AppendToMissingItem ==
    /\ pc = "built"
    /\ idx < MaxInvLogs
    /\ \E d \in {invoice.start_date - 1, invoice.invoice_date + 1} :
          ~HasItem(invoice, d)
    /\ Raise("KeyError")
    /\ UNCHANGED <<entry, token, start_date, end_date, next_date, invoices, invoice,
                   work_logs, idx, fetches, returned, consultant>>

NextInvoice ==
    \/ NewInvoice
    \/ AppendToItem
    \/ AppendToMissingItem

SpecInvoice == InitInvoice /\ [][NextInvoice]_vars

-----------------------------------------------------------------------------
(* Properties of the engine, checked under Spec *)

\* number of loop iterations of invoices_in_range that have stored their invoice
Iterations == IF next_date < start_date THEN 0 ELSE (next_date - start_date) \div DaysPerWeek

\* the ids of the records of a fetch, in fetch order, whose startDate is date d
IdsDated(records, d) ==
    LET iso   == IsoFormat(d)
        dated == SelectSeq(records, LAMBDA r : r.startDate = iso)
    IN  [i \in 1..Len(dated) |-> dated[i].tempoWorklogId]

IdsOf(logs) == [i \in 1..Len(logs) |-> logs[i].worklog_id]

\* a raw record that cannot be turned into a work log of the week it was fetched for
Malformed(r) ==
    \/ ~IsIsoDate(r.startDate)
    \/ ~IsTimestamp(r.createdAt)
    \/ ~IsTimestamp(r.updatedAt)
    \/ \A i \in 1..Len(r.attributes) : r.attributes[i].key # "_Account_"

OutsideWeek(r, f) ==
    IsIsoDate(r.startDate) /\ FromIsoFormat(r.startDate) \notin f.dateFrom..f.dateTo

\* the records of fetch number i that the engine has consumed so far
Consumed(i) ==
    IF i = Len(fetches) /\ pc \in {"append", "raised"}
    THEN SubSeq(fetches[i].records, 1, idx)
    ELSE fetches[i].records

\* C1: whenever billing_date_bounds has been applied to a date d (the loop's
\* next_date), the bounds it gave the Invoice are 6 days apart, start on a
\* Saturday, end on a Friday and contain d.
C1_BoundsContract ==
    pc = "append" =>
        /\ invoice.invoice_date - invoice.start_date = 6
        /\ Weekday(invoice.start_date) = Saturday
        /\ Weekday(invoice.invoice_date) = Friday
        /\ invoice.start_date <= next_date
        /\ next_date <= invoice.invoice_date

\* the weekend branch and the weekday branch have both been taken
C1_Witness ==
    /\ pc = "append"
    /\ Len(invoices) = 1
    /\ Weekday(start_date) = Sunday
    /\ invoice.start_date = next_date - 1
    /\ invoices[1][2].invoice_date = invoice.start_date - 1

\* C2 as claimed: the returned mapping has the key s + 6 for every Saturday s
\* with start <= s <= end.
C2_EverySaturdayCovered ==
    pc = "done" =>
        \A s \in start_date..end_date.ord :
            Weekday(s) = Saturday => (s + 6) \in KeySet(invoices)

\* C3: every iteration stores its invoice under a new key (the dict has one entry
\* per iteration), consecutive keys in insertion order are exactly 7 days apart,
\* the mapping returned is the dict, and it is empty when start > end.
C3_KeysIncreaseBySeven ==
    /\ pc \in {"loop", "append", "done"} => Len(invoices) = Iterations
    /\ \A i \in 1..(Len(invoices) - 1) : invoices[i + 1][1] = invoices[i][1] + 7
    /\ \A i \in 1..Len(invoices) : invoices[i][2].invoice_date = invoices[i][1]
    /\ pc = "done" =>
          /\ Len(returned) = Len(invoices)
          /\ \A i \in 1..Len(returned) : returned[i][2] = invoices[i][2]
          /\ start_date > end_date.ord => returned = <<>>

C3_Witness ==
    /\ pc = "done"
    /\ entry = "library"
    /\ Len(returned) = 3
    /\ returned[3][1] = returned[1][1] + 14

\* C4: every built invoice holds, under each date d of its week, exactly the
\* fetched work logs dated d, once each and in fetch order; the invoice under
\* construction does so for the records consumed so far; no work log is stored
\* under another date.
C4_LogsUnderTheirDate ==
    /\ \A i \in 1..Len(invoices) :
          LET inv == invoices[i][2]
          IN  \A d \in inv.start_date..inv.invoice_date :
                  /\ IdsOf(inv.items[d].work_logs) = IdsDated(fetches[i].records, d)
                  /\ \A k \in 1..Len(inv.items[d].work_logs) :
                        inv.items[d].work_logs[k].date = d
    /\ pc = "append" =>
          \A d \in invoice.start_date..invoice.invoice_date :
              /\ IdsOf(invoice.items[d].work_logs) = IdsDated(SubSeq(work_logs, 1, idx), d)
              /\ \A k \in 1..Len(invoice.items[d].work_logs) :
                    invoice.items[d].work_logs[k].date = d

\* a built invoice with two work logs on one day and a later one under construction
C4_Witness ==
    /\ pc = "append"
    /\ Len(invoices) = 1
    /\ \E d \in DOMAIN invoices[1][2].items :
          /\ Weekday(d) = Sunday
          /\ Len(invoices[1][2].items[d].work_logs) = 2

\* C5: a failed fetch, a malformed record or a record dated outside its week ends
\* the call with that error: no mapping is returned, nothing runs after the error
\* (no further fetch), and no week is ever fetched twice; a call that returns has
\* met no failure.
C5_AllOrNothing ==
    /\ \A i \in 1..Len(fetches) :
          (\/ ~fetches[i].ok
           \/ \E k \in 1..Len(Consumed(i)) :
                 Malformed(Consumed(i)[k]) \/ OutsideWeek(Consumed(i)[k], fetches[i]))
            => /\ pc = "raised"
               /\ i = Len(fetches)
               /\ error \in {"TempoError", "ValueError", "IndexError", "KeyError"}
    /\ pc = "raised" => returned = <<>> /\ ~ENABLED Next
    /\ pc = "raised" /\ fetches # <<>> => Len(fetches) = Len(invoices) + 1
    /\ \A i, j \in 1..Len(fetches) : i # j => fetches[i].dateFrom # fetches[j].dateFrom

\* the second week fails on its second record, after the first was appended
C5_Witness ==
    /\ pc = "raised"
    /\ error = "KeyError"
    /\ Len(invoices) = 1
    /\ idx = 2
    /\ returned = <<>>

\* C10 as claimed: an authorized GET /invoices/ with an ISO end_date does not end
\* in an error caused by the end_date value.
C10_EndDateAccepted ==
    (entry = "http" /\ token = TOKEN /\ pc = "raised") => error # "TypeError"

-----------------------------------------------------------------------------
(* Properties of one Invoice, checked under SpecInvoice *)

RECURSIVE SecondsOf(_)
SecondsOf(logs) ==
    IF logs = <<>> THEN 0 ELSE Head(logs).billable_seconds + SecondsOf(Tail(logs))

RECURSIVE SecondsIn(_, _)
SecondsIn(inv, dates) ==
    IF dates = {} THEN 0
    ELSE LET d == CHOOSE x \in dates : TRUE
         IN  SecondsOf(inv.items[d].work_logs) + SecondsIn(inv, dates \ {d})

\* all billable seconds logged in the invoice
TotalSeconds(inv) == SecondsIn(inv, DOMAIN inv.items)

Built == pc = "built" \/ (pc = "raised" /\ error = "KeyError")

\* whether a Decimal has at most 4 decimal places
FitsPlaces(x) == Pow10(Places) % x.den = 0

\* C6: a constructed Invoice over [s, e] has exactly (e - s) + 1 items, one per
\* date of [s, e], each blank right after construction; appending work logs (also
\* one whose date has no item, which raises) leaves the key set the dates of
\* [start_date, invoice_date].
C6_OneItemPerDate ==
    Built =>
        /\ DOMAIN invoice.items = start_date..end_date.ord
        /\ Cardinality(DOMAIN invoice.items) = (end_date.ord - start_date) + 1
        /\ DOMAIN invoice.items = invoice.start_date..invoice.invoice_date
        /\ \A d \in DOMAIN invoice.items :
              /\ invoice.items[d].date = d
              /\ invoice.items[d].billing_mode = invoice.billing_mode
              /\ idx = 0 => invoice.items[d].work_logs = <<>>

\* a one-day span after two appends, and a failed append behind it
C6_Witness ==
    /\ pc = "raised"
    /\ error = "KeyError"
    /\ idx = 1
    /\ invoice.start_date = invoice.invoice_date
    /\ Len(invoice.items[invoice.start_date].work_logs) = 1

MonthDays(date) == DaysInMonth(Ord2Ymd(date)[1], Ord2Ymd(date)[2])

\* (rate/ds * ws + rate/de * we) / (ws + we) as one fraction
WeightedBlend(rate, ds, de, ws, we) ==
    Rat(rate.num * (ws * de + we * ds), rate.den * ds * de * (ws + we))

\* (rate/ds + rate/de) / 2 as one fraction
SimpleAverage(rate, ds, de) == Rat(rate.num * (ds + de), rate.den * ds * de * 2)

\* C8: a MONTHLY invoice has a net_rate of at most 4 decimal places, which is
\* round(rate / days_in_start_month, 4)
\* when the months of start_date and invoice_date have the same number of days,
\* and otherwise round(weighted blend, 4) with ws = days_in_start_month -
\* start_date.day + 1 and we = invoice_date.day.
C8_MonthlyNetRate ==
    (Built /\ invoice.billing_mode = "MONTHLY") =>
        LET ds == MonthDays(invoice.start_date)
            de == MonthDays(invoice.invoice_date)
            ws == ds - Ord2Ymd(invoice.start_date)[3] + 1
            we == Ord2Ymd(invoice.invoice_date)[3]
        IN  /\ FitsPlaces(net_rate(invoice))
            /\ ds = de => net_rate(invoice) = Round(Rat(invoice.rate.num, invoice.rate.den * ds), Places)
            /\ ds # de => net_rate(invoice) = Round(WeightedBlend(invoice.rate, ds, de, ws, we), Places)

\* 2021-04-29 .. 2021-05-04: 2 days of a 30-day month, 4 of a 31-day month; the
\* blend differs from the simple average of the two daily rates
C8_Witness ==
    /\ pc = "built"
    /\ invoice.billing_mode = "MONTHLY"
    /\ Ord2Ymd(invoice.start_date) = <<2021, 4, 29>>
    /\ Ord2Ymd(invoice.invoice_date) = <<2021, 5, 4>>
    /\ net_rate(invoice) # Round(SimpleAverage(invoice.rate, 30, 31), Places)
    /\ net_rate(invoice) = Round(WeightedBlend(invoice.rate, 30, 31, 2, 4), Places)

====
